---------------------------- MODULE Spec2Model ----------------------------
(***************************************************************************)
(* The parts inventory service of src/app.py: one table of Part rows       *)
(* behind six request handlers and a before_request method check.          *)
(*                                                                         *)
(* A request is received (req), handled by exactly one handler, which      *)
(* writes the table (parts) and the response (resp), and the response is   *)
(* then delivered.  pre is the table as the handler found it and issued    *)
(* the ids already returned to clients by earlier creates: both are        *)
(* history variables, read by the properties only.                         *)
(*                                                                         *)
(* Strings the code inspects character by character (the part type and     *)
(* the type filter: upper(), lower(), ilike) are sequences of characters;  *)
(* strings it only stores are TLA+ strings.  A nullable value is <<>>      *)
(* (null) or <<x>>.  A JSON body is a function from its keys to values.    *)
(* Prices are whole currency units; average_price is in hundredths.        *)
(***************************************************************************)
EXTENDS Integers, Sequences, FiniteSets

VARIABLES parts, req, resp, pre, issued

vars == <<parts, req, resp, pre, issued>>

\* Largest row id the model lets the table assign.
MaxId == 2

---------------------------------------------------------------------------
(* Character strings *)

CPU == <<"C", "P", "U">>
GPU == <<"G", "P", "U">>

\* str.upper() on the characters the model uses
UpperChar(c) ==
    CASE c = "c" -> "C" [] c = "p" -> "P" [] c = "u" -> "U" [] c = "g" -> "G"
      [] c = "x" -> "X" [] c = "r" -> "R" [] c = "a" -> "A" [] c = "m" -> "M"
      [] OTHER -> c

\* str.lower() on the characters the model uses
LowerChar(c) ==
    CASE c = "C" -> "c" [] c = "P" -> "p" [] c = "U" -> "u" [] c = "G" -> "g"
      [] c = "X" -> "x" [] c = "R" -> "r" [] c = "A" -> "a" [] c = "M" -> "m"
      [] OTHER -> c

Upper(s) == [i \in 1..Len(s) |-> UpperChar(s[i])]

Lower(s) == [i \in 1..Len(s) |-> LowerChar(s[i])]

\* sub occurs in s as a contiguous run (SQL LIKE '%sub%', sub without wildcards)
Contains(s, sub) ==
    \E k \in 0..(Len(s) - Len(sub)) :
        \A j \in 1..Len(sub) : s[k + j] = sub[j]

\* Column.ilike('%f%'): case-insensitive LIKE
ILike(s, f) == Contains(Lower(s), Lower(f))

Null == <<>>

---------------------------------------------------------------------------
(* The Part row and the field contract *)

required_fields ==
    <<"name", "type", "release_date", "core_clock", "clock_unit", "price",
      "TDP", "part_no">>

Required == {required_fields[i] : i \in 1..Len(required_fields)}

\* the columns a client may write
Writable == Required \cup {"boost_clock"}

\* Part.__init__
Part(name, type, release_date, core_clock, boost_clock, clock_unit, price, TDP, part_no) ==
    [name |-> name, type |-> type, release_date |-> release_date,
     core_clock |-> core_clock, boost_clock |-> boost_clock,
     clock_unit |-> clock_unit, price |-> price, TDP |-> TDP,
     part_no |-> part_no]

\* dict.get(key): the value, or None when the key is absent
Get(data, key) == IF key \in DOMAIN data THEN data[key] ELSE Null

EmptyTable == [i \in {} |-> Null]

Max(S) == CHOOSE m \in S : \A n \in S : n <= m

\* The id SQLite gives a new row of a table whose key is declared
\* INTEGER PRIMARY KEY without AUTOINCREMENT: one more than the largest
\* id in the table, 1 for an empty table.
NextRowid(ps) == IF DOMAIN ps = {} THEN 1 ELSE Max(DOMAIN ps) + 1


\* db.session.add(new_part); db.session.commit()
Insert(ps, id, part) ==
    [i \in DOMAIN ps \cup {id} |-> IF i = id THEN part ELSE ps[i]]

\* db.session.delete(part); db.session.commit()
Remove(ps, id) == [i \in DOMAIN ps \ {id} |-> ps[i]]

\* Part.query.get(id): the row, or None
QueryGet(ps, id) == IF id \in DOMAIN ps THEN <<ps[id]>> ELSE Null

RECURSIVE Ascending(_)
\* the ids of S in the order a table scan yields its rows
Ascending(S) ==
    IF S = {} THEN <<>>
    ELSE LET m == Max(S) IN Append(Ascending(S \ {m}), m)

---------------------------------------------------------------------------
(* Responses *)

Response(code, status, message, data) ==
    [code |-> code, status |-> status, message |-> message, data |-> data]

NoData == [k \in {} |-> Null]

part_not_found == Response(404, 1, "Part not found.", NoData)

part_type_invalid ==
    Response(400, 1, "Invalid type. Valid choices are 'CPU' and 'GPU'.", NoData)

id_supplied_error == Response(400, 1, "Client cannot supply id.", NoData)

\* what a handler leaves behind: the table and the response
Outcome(ps, r) == [parts |-> ps, resp |-> r]

\* [field for field in required_fields if field not in data]
MissingFields(data) ==
    SelectSeq(required_fields, LAMBDA field : field \notin DOMAIN data)

---------------------------------------------------------------------------
(* PUT /parts *)

\* add_part, a plausible slip: the optional boost_clock is never read
new_part_without_boost(json) ==
    Part(json["name"], json["type"], json["release_date"], json["core_clock"],
         Null, json["clock_unit"], json["price"], json["TDP"], json["part_no"])

\* the row add_part builds from a body that passed its checks
new_part(json) ==
    Part(json["name"], json["type"], json["release_date"], json["core_clock"],
         Get(json, "boost_clock"), json["clock_unit"], json["price"],
         json["TDP"], json["part_no"])

add_part(ps, json) ==
    LET missing_fields == MissingFields(json) IN
    IF missing_fields # <<>>
    THEN Outcome(ps, Response(400, 1, "Missing required fields: ",
                              [missing |-> missing_fields]))
    ELSE IF "id" \in DOMAIN json
    THEN Outcome(ps, id_supplied_error)
    ELSE IF json["type"] \notin {CPU, GPU}
    THEN Outcome(ps, part_type_invalid)
    ELSE LET id == NextRowid(ps) IN
         Outcome(Insert(ps, id, new_part(json)),
                 Response(200, 0, "New part added", [id |-> id]))

---------------------------------------------------------------------------
(* GET /parts *)

\* "if type:" -- a query argument that is present and not empty
Truthy(opt) == opt # Null /\ opt[1] # <<>>

\* get_part, a plausible slip: the filter is checked as a substring too
type_filter_valid_substring(type) ==
    \E t \in {GPU, CPU} : Contains(t, Upper(type))

\* type.upper() in ["GPU", "CPU"]
type_filter_valid(type) == Upper(type) \in {GPU, CPU}

\* the ids of the rows the query of get_part returns
select_parts(ps, arg) ==
    IF Truthy(arg)
    THEN {i \in DOMAIN ps : ILike(ps[i].type, arg[1])}
    ELSE DOMAIN ps

RECURSIVE Sum(_, _)
\* sum(part["price"] for part in result)
Sum(result, n) == IF n = 0 THEN 0 ELSE Sum(result, n - 1) + result[n].price

\* round(total_price / number_of_parts, 2), in hundredths
Round2(total_price, number_of_parts) ==
    (200 * total_price + number_of_parts) \div (2 * number_of_parts)

\* get_part, a plausible slip: the average is taken over the whole table
average_of_table(ps, result) ==
    IF DOMAIN ps # {}
    THEN LET all == Ascending(DOMAIN ps)
             rows == [n \in 1..Len(all) |-> ps[all[n]]]
         IN Round2(Sum(rows, Len(rows)), Len(rows))
    ELSE 0

\* average_price of get_part
average_price(ps, result) ==
    IF Len(result) # 0
    THEN Round2(Sum(result, Len(result)), Len(result))
    ELSE 0

get_part(ps, arg) ==
    IF Truthy(arg) /\ ~type_filter_valid(arg[1])
    THEN Outcome(ps, part_type_invalid)
    ELSE LET ids == Ascending(select_parts(ps, arg))
             result == [n \in 1..Len(ids) |->
                           [id |-> ids[n], name |-> ps[ids[n]].name,
                            type |-> ps[ids[n]].type, price |-> ps[ids[n]].price]]
         IN Outcome(ps, Response(200, 0, "",
                        [total |-> Len(result),
                         average_price |-> average_price(ps, result),
                         parts |-> result]))

---------------------------------------------------------------------------
(* GET /parts/<id> *)

\* part_schema.dump(part): every column and the id
Dump(id, part) ==
    [id |-> id, name |-> part.name, type |-> part.type,
     release_date |-> part.release_date, core_clock |-> part.core_clock,
     boost_clock |-> part.boost_clock, clock_unit |-> part.clock_unit,
     price |-> part.price, TDP |-> part.TDP, part_no |-> part.part_no]

get_part_by_id(ps, id) ==
    IF QueryGet(ps, id) = Null
    THEN Outcome(ps, part_not_found)
    ELSE Outcome(ps, Response(200, 0, "", Dump(id, ps[id])))

---------------------------------------------------------------------------
(* POST /parts/<id> *)

\* update_part, a plausible slip: boost_clock is merged, not replaced
update_fields_keep_boost(part, data) ==
    Part(data["name"], data["type"], data["release_date"], data["core_clock"],
         IF "boost_clock" \in DOMAIN data THEN data["boost_clock"]
                                          ELSE part.boost_clock,
         data["clock_unit"], data["price"], data["TDP"], data["part_no"])

\* the assignments of update_part; part.boost_clock = data.get("boost_clock")
update_fields(part, data) ==
    Part(data["name"], data["type"], data["release_date"], data["core_clock"],
         Get(data, "boost_clock"), data["clock_unit"], data["price"],
         data["TDP"], data["part_no"])

\* data.get("type") and data["type"].upper() not in ["CPU", "GPU"]
update_type_rejected(data) ==
    /\ Get(data, "type") # Null
    /\ data["type"] # <<>>
    /\ Upper(data["type"]) \notin {CPU, GPU}

\* update_part, a plausible slip: the row is written before the type check
update_part_writes_first(ps, id, data) ==
    IF QueryGet(ps, id) = Null
    THEN Outcome(ps, part_not_found)
    ELSE IF "id" \in DOMAIN data
    THEN Outcome(ps, id_supplied_error)
    ELSE IF MissingFields(data) # <<>>
    THEN Outcome(ps, Response(400, 1, "Missing fields: ",
                              [missing |-> MissingFields(data)]))
    ELSE IF update_type_rejected(data)
    THEN Outcome(Insert(ps, id, update_fields(ps[id], data)), part_type_invalid)
    ELSE Outcome(Insert(ps, id, update_fields(ps[id], data)),
                 Response(200, 0, "Part details updated", NoData))

update_part(ps, id, data) ==
    IF QueryGet(ps, id) = Null
    THEN Outcome(ps, part_not_found)
    ELSE IF "id" \in DOMAIN data
    THEN Outcome(ps, id_supplied_error)
    ELSE IF MissingFields(data) # <<>>
    THEN Outcome(ps, Response(400, 1, "Missing fields: ",
                              [missing |-> MissingFields(data)]))
    ELSE IF update_type_rejected(data)
    THEN Outcome(ps, part_type_invalid)
    ELSE Outcome(Insert(ps, id, update_fields(ps[id], data)),
                 Response(200, 0, "Part details updated", NoData))

---------------------------------------------------------------------------
(* PATCH /parts/<id> *)

\* modify_part, a plausible slip: the TDP branch assigns part.price
modify_fields_tdp_to_price(part, data) ==
    [name         |-> IF "name" \in DOMAIN data THEN data["name"] ELSE part.name,
     type         |-> IF "type" \in DOMAIN data THEN data["type"] ELSE part.type,
     release_date |-> IF "release_date" \in DOMAIN data
                      THEN data["release_date"] ELSE part.release_date,
     core_clock   |-> IF "core_clock" \in DOMAIN data
                      THEN data["core_clock"] ELSE part.core_clock,
     boost_clock  |-> IF "boost_clock" \in DOMAIN data
                      THEN data["boost_clock"] ELSE part.boost_clock,
     clock_unit   |-> IF "clock_unit" \in DOMAIN data
                      THEN data["clock_unit"] ELSE part.clock_unit,
     price        |-> IF "TDP" \in DOMAIN data THEN data["TDP"]
                      ELSE IF "price" \in DOMAIN data THEN data["price"]
                      ELSE part.price,
     TDP          |-> part.TDP,
     part_no      |-> IF "part_no" \in DOMAIN data
                      THEN data["part_no"] ELSE part.part_no]

\* the loop of modify_part: one branch per column, no branch for other keys
modify_fields(part, data) ==
    [name         |-> IF "name" \in DOMAIN data THEN data["name"] ELSE part.name,
     type         |-> IF "type" \in DOMAIN data THEN data["type"] ELSE part.type,
     release_date |-> IF "release_date" \in DOMAIN data
                      THEN data["release_date"] ELSE part.release_date,
     core_clock   |-> IF "core_clock" \in DOMAIN data
                      THEN data["core_clock"] ELSE part.core_clock,
     boost_clock  |-> IF "boost_clock" \in DOMAIN data
                      THEN data["boost_clock"] ELSE part.boost_clock,
     clock_unit   |-> IF "clock_unit" \in DOMAIN data
                      THEN data["clock_unit"] ELSE part.clock_unit,
     price        |-> IF "price" \in DOMAIN data THEN data["price"] ELSE part.price,
     TDP          |-> IF "TDP" \in DOMAIN data THEN data["TDP"] ELSE part.TDP,
     part_no      |-> IF "part_no" \in DOMAIN data
                      THEN data["part_no"] ELSE part.part_no]

\* "type" in data and data["type"].lower() not in ["cpu", "gpu"]
modify_type_rejected(data) ==
    /\ "type" \in DOMAIN data
    /\ Lower(data["type"]) \notin {Lower(CPU), Lower(GPU)}

modify_part(ps, id, data) ==
    IF QueryGet(ps, id) = Null
    THEN Outcome(ps, part_not_found)
    ELSE IF "id" \in DOMAIN data
    THEN Outcome(ps, id_supplied_error)
    ELSE IF modify_type_rejected(data)
    THEN Outcome(ps, part_type_invalid)
    ELSE Outcome(Insert(ps, id, modify_fields(ps[id], data)),
                 Response(200, 0, "Part modified", NoData))

---------------------------------------------------------------------------
(* DELETE /parts/<id> *)

\* delete_part, a plausible slip: the delete is issued without its WHERE
remove_all(ps, id) == EmptyTable

\* db.session.delete(part); db.session.commit()
remove_part(ps, id) == Remove(ps, id)

delete_part(ps, id) ==
    IF QueryGet(ps, id) = Null
    THEN Outcome(ps, part_not_found)
    ELSE Outcome(remove_part(ps, id), Response(200, 0, "Part deleted", NoData))

---------------------------------------------------------------------------
(* before_request *)

Methods == {"PUT", "POST", "GET", "PATCH", "DELETE"}

Collection == "/parts"
Item == "/parts/<id>"

\* request.path.startswith("/parts"), over the two routes of the service
StartsWithParts(path) == path \in {Collection, Item}

\* validate_request: the response it returns, or Null to let the request on
validate_request(method, path) ==
    IF method \notin Methods /\ StartsWithParts(path)
    THEN <<Response(405, 1,
                    "405 Method Not Allowed Allow: GET, POST, PUT, PATCH, DELETE",
                    NoData)>>
    ELSE Null

---------------------------------------------------------------------------
(* The requests the clients send *)

Variants == {1, 2}

\* the value a body of variant v carries under key k (t is its type)
Value(k, v, t) ==
    CASE k = "type"         -> t
      [] k = "name"         -> IF v = 1 THEN "Ryzen 5 3600" ELSE "RTX 3080"
      [] k = "release_date" -> IF v = 1 THEN 2019 ELSE 2020
      [] k = "core_clock"   -> IF v = 1 THEN 3600 ELSE 1440
      [] k = "boost_clock"  -> IF v = 1 THEN <<4200>> ELSE Null
      [] k = "clock_unit"   -> IF v = 1 THEN "MHz" ELSE "GHz"
      [] k = "price"        -> IF v = 1 THEN 200 ELSE 700
      [] k = "TDP"          -> IF v = 1 THEN 65 ELSE 320
      [] k = "part_no"      -> IF v = 1 THEN "100-000000031" ELSE "PG132"
      [] k = "id"           -> IF v = 1 THEN 1 ELSE 9
      [] k = "note"         -> IF v = 1 THEN "used" ELSE "new"

Body(K, v, t) == [k \in K |-> Value(k, v, t)]

TypeValues ==
    {CPU, GPU, <<"c", "p", "u">>, <<>>, <<"R", "A", "M">>}

\* bodies for create and full update: every required key but at most one
\* (or name and price), with any of id, boost_clock and an unknown key
FullKeysets ==
    {(Required \ M) \cup E :
        M \in {{}} \cup {{k} : k \in Required} \cup {{"name", "price"}},
        E \in SUBSET {"id", "boost_clock", "note"}}

\* bodies for partial update: at most one column (or boost_clock and
\* price), with any of id and an unknown key
PatchKeysets ==
    {S \cup E :
        S \in {{}} \cup {{k} : k \in Writable} \cup {{"boost_clock", "price"}},
        E \in SUBSET {"id", "note"}}

\* every body over the key sets and variants given, of every type
Bodies(keysets, variants) ==
    {Body(K, v, t) : K \in keysets, v \in variants, t \in TypeValues}

\* the bodies of the long-running specification: few key sets, one variant
\* (and the partial update that sets boost_clock to an explicit null)
FewKeysets ==
    {Required, Required \cup {"boost_clock"}, Required \cup {"id"},
     Required \ {"price"}, {}, {"type"}, {"boost_clock"}, {"id"}}

FewBodies == Bodies(FewKeysets, {1}) \cup Bodies({{"boost_clock"}}, {2})

\* ?type=... : absent, empty, or a string
Filters ==
    {Null, <<<<>>>>, <<GPU>>, <<<<"c", "p", "u">>>>, <<<<"G", "P">>>>,
     <<<<"P">>>>, <<<<"R", "A", "M">>>>}

Ids == 1..MaxId

Request(method, path, id, json, type) ==
    [method |-> method, path |-> path, id |-> id, json |-> json, type |-> type]

Requests(bodies) ==
    {Request("PUT", Collection, 0, b, Null) : b \in bodies}
    \cup {Request(m, Item, i, b, Null) :
            m \in {"POST", "PATCH"}, i \in Ids, b \in bodies}
    \cup {Request(m, Item, i, NoData, Null) : m \in {"GET", "DELETE"}, i \in Ids}
    \cup {Request("GET", Collection, 0, NoData, f) : f \in Filters}
    \cup {Request("HEAD", Collection, 0, NoData, Null)}

NoReq == Request("", "", 0, NoData, Null)
NoResp == Response(0, 0, "", NoData)

---------------------------------------------------------------------------
(* Actions *)

\* a request arrives while none is being served; a create is let in only
\* while the table can still assign an id within the model's range
Receive(reqs) ==
    /\ req = NoReq
    /\ \E r \in reqs :
          /\ r.method = "PUT" => NextRowid(parts) <= MaxId
          /\ req' = r
    /\ UNCHANGED <<parts, resp, pre, issued>>

\* the request is before its handler, past before_request
Routed(method, path) ==
    /\ req # NoReq
    /\ resp = NoResp
    /\ validate_request(req.method, req.path) = Null
    /\ req.method = method
    /\ req.path = path

\* a handler returns: the table is committed and the response is written
Return(out) ==
    /\ parts' = out.parts
    /\ resp' = out.resp
    /\ pre' = parts
    /\ UNCHANGED <<req, issued>>

ValidateRequest ==
    /\ req # NoReq
    /\ resp = NoResp
    /\ validate_request(req.method, req.path) # Null
    /\ Return(Outcome(parts, validate_request(req.method, req.path)[1]))

AddPart == Routed("PUT", Collection) /\ Return(add_part(parts, req.json))

GetPart == Routed("GET", Collection) /\ Return(get_part(parts, req.type))

GetPartById == Routed("GET", Item) /\ Return(get_part_by_id(parts, req.id))

UpdatePart == Routed("POST", Item) /\ Return(update_part(parts, req.id, req.json))

ModifyPart == Routed("PATCH", Item) /\ Return(modify_part(parts, req.id, req.json))

DeletePart == Routed("DELETE", Item) /\ Return(delete_part(parts, req.id))

\* the response reaches the client; a created part's id is now known to it
Respond ==
    /\ resp # NoResp
    /\ req' = NoReq
    /\ resp' = NoResp
    /\ pre' = EmptyTable
    /\ issued' = IF req.method = "PUT" /\ resp.code = 200
                 THEN issued \cup {resp.data.id}
                 ELSE issued
    /\ UNCHANGED parts

Handle ==
    \/ ValidateRequest
    \/ AddPart
    \/ GetPart
    \/ GetPartById
    \/ UpdatePart
    \/ ModifyPart
    \/ DeletePart

---------------------------------------------------------------------------
(* The service from an empty table, serving requests one after another *)

Init ==
    /\ parts = EmptyTable
    /\ req = NoReq
    /\ resp = NoResp
    /\ pre = EmptyTable
    /\ issued = {}

ReceiveFew == Receive(Requests(FewBodies))

Next == ReceiveFew \/ Handle \/ Respond

Spec == Init /\ [][Next]_vars

---------------------------------------------------------------------------
(* One request, of any body, served against a table the service can hold: *)
(* the table is kept in the file db.sqlite, and a service that starts      *)
(* finds there the rows an earlier run left.                               *)

\* rows the service can hold: created, and created then updated
Rows ==
    {new_part(Body(Required \cup {"boost_clock"}, 1, CPU)),
     new_part(Body(Required, 2, GPU)),
     modify_fields(new_part(Body(Required, 1, CPU)),
                   Body({"type"}, 1, <<"c", "p", "u">>)),
     modify_fields(new_part(Body(Required, 2, GPU)),
                   Body({"boost_clock", "price"}, 1, GPU)),
     update_fields(new_part(Body(Required, 1, CPU)),
                   Body(Required \cup {"boost_clock"}, 2, <<>>))}

\* db.create_all() on an existing file: the tables and their rows are kept
Start ==
    /\ req = NoReq
    /\ resp = NoResp
    /\ \E D \in SUBSET Ids :
          /\ parts' \in [D -> Rows]
          /\ issued' = IF D = {} THEN {} ELSE 1..Max(D)
    /\ UNCHANGED <<req, resp, pre>>

ReceiveAny == Receive(Requests(Bodies(FullKeysets \cup PatchKeysets, Variants)))

NextOne == ReceiveAny \/ Start \/ Handle

SpecOne == Init /\ [][NextOne]_vars

---------------------------------------------------------------------------
(* Properties.  Each is read in a state where a handler has returned:      *)
(* req is the request it served, pre the table it found, parts the table   *)
(* it left and resp its response.                                          *)

Served(method, path) ==
    resp # NoResp /\ req.method = method /\ req.path = path

\* the error taxonomy of the responses
Kind(r) ==
    CASE r.status = 0 -> "OK"
      [] r = part_not_found -> "NotFound"
      [] r = part_type_invalid -> "InvalidType"
      [] r = id_supplied_error -> "ClientSuppliedId"
      [] r.code = 400 /\ "missing" \in DOMAIN r.data -> "MissingFields"
      [] OTHER -> "MethodNotAllowed"

\* C1: in every reachable state every stored part has type exactly "CPU"
\* or exactly "GPU".
C1_TypeIsCpuOrGpu == \A i \in DOMAIN parts : parts[i].type \in {CPU, GPU}

\* C2: the id a successful create returns was never returned by an earlier
\* create, also when the part that had it has since been deleted.
C2_CreatedIdIsFresh ==
    (Served("PUT", Collection) /\ resp.code = 200) => resp.data.id \notin issued

\* C3: a request answered with MissingFields, InvalidType, ClientSuppliedId
\* or NotFound leaves the table exactly as it found it.
C3_ErrorLeavesTableUnchanged ==
    (resp # NoResp
       /\ Kind(resp) \in {"MissingFields", "InvalidType", "ClientSuppliedId",
                          "NotFound"})
    => parts = pre

C3_Witness ==
    /\ Served("POST", Item)
    /\ Kind(resp) = "InvalidType"
    /\ req.id \in DOMAIN pre
    /\ update_fields(pre[req.id], req.json) # pre[req.id]

\* C4: a full update of an existing part answers every body with the kind
\* of response (OK, MissingFields, ClientSuppliedId, InvalidType) that a
\* create answers the same body with.
C4_FullUpdateValidatesAsCreate ==
    (Served("POST", Item) /\ req.id \in DOMAIN pre)
    => Kind(resp) = Kind(add_part(pre, req.json).resp)

\* C5: a successful partial update sets, in the part it names, each column
\* whose key is in the body to the body's value and leaves every other
\* column of that part, the set of ids and every other part as they were;
\* keys that are no column change nothing.
C5_PartialUpdateFrame ==
    (Served("PATCH", Item) /\ resp.code = 200)
    => /\ DOMAIN parts = DOMAIN pre
       /\ req.id \in DOMAIN pre
       /\ DOMAIN parts[req.id] = Writable
       /\ \A k \in Writable :
             parts[req.id][k] = IF k \in DOMAIN req.json THEN req.json[k]
                                                         ELSE pre[req.id][k]
       /\ \A j \in DOMAIN pre \ {req.id} : parts[j] = pre[j]

C5_Witness ==
    /\ Served("PATCH", Item)
    /\ resp.code = 200
    /\ DOMAIN req.json = {"TDP", "note"}
    /\ parts[req.id].TDP # pre[req.id].TDP
    /\ DOMAIN pre # {req.id}

\* f is a proper substring of "CPU" or of "GPU"
ProperSubstringOfType(f) ==
    \E t \in {CPU, GPU} : Contains(t, f) /\ f # t

\* the ids in the parts of a list response
ListedIds(r) == {r.data.parts[n].id : n \in 1..Len(r.data.parts)}

\* C6 (as claimed): a list whose filter is a proper substring of a valid type
\* name succeeds and returns the parts whose type contains the filter.
C6_SubstringFilterMatches ==
    (Served("GET", Collection) /\ req.type # Null
       /\ ProperSubstringOfType(req.type[1]))
    => /\ resp.code = 200
       /\ ListedIds(resp) = {i \in DOMAIN pre : Contains(pre[i].type, req.type[1])}

\* C6 (amended): a list whose filter is a non-empty proper substring of a
\* valid type name is refused with InvalidType, 400, and lists nothing; a
\* filter that upper-cases to "CPU" or "GPU" is accepted and lists the
\* parts whose type contains it, ignoring case.
C6_SubstringFilterRefused ==
    (Served("GET", Collection) /\ req.type # Null /\ req.type[1] # <<>>)
    => /\ ProperSubstringOfType(req.type[1])
          => (resp.code = 400 /\ Kind(resp) = "InvalidType" /\ resp.data = NoData)
       /\ Upper(req.type[1]) \in {CPU, GPU}
          => /\ resp.code = 200
             /\ ListedIds(resp) =
                   {i \in DOMAIN pre :
                       Contains(Upper(pre[i].type), Upper(req.type[1]))}

C6_Witness ==
    /\ Served("GET", Collection)
    /\ req.type = <<<<"G", "P">>>>
    /\ resp.code = 400
    /\ \E i \in DOMAIN pre : pre[i].type = GPU

\* C7: after a successful create, get-by-id of the returned id answers 200
\* with the submitted value of every required field, the submitted
\* boost_clock or null when the body had none, and that id; the create adds
\* that one part and changes no other.
C7_CreateThenGetById ==
    (Served("PUT", Collection) /\ resp.code = 200)
    => LET id == resp.data.id
           got == get_part_by_id(parts, id).resp
       IN /\ got.code = 200
          /\ got.status = 0
          /\ DOMAIN got.data = Writable \cup {"id"}
          /\ got.data.id = id
          /\ \A k \in Required : got.data[k] = req.json[k]
          /\ got.data.boost_clock =
                IF "boost_clock" \in DOMAIN req.json
                THEN req.json["boost_clock"] ELSE Null
          /\ id \notin DOMAIN pre
          /\ DOMAIN parts = DOMAIN pre \cup {id}
          /\ \A j \in DOMAIN pre : parts[j] = pre[j]

C7_Witness ==
    /\ Served("PUT", Collection)
    /\ resp.code = 200
    /\ "boost_clock" \in DOMAIN req.json
    /\ req.json["boost_clock"] # Null
    /\ "note" \in DOMAIN req.json
    /\ pre # EmptyTable

\* C8: a successful full update whose body has no boost_clock leaves the
\* part with a null boost_clock, whatever it was, and with the body's value
\* in every other column; a successful partial update whose body has no
\* boost_clock leaves boost_clock as it was.
C8_OmittedBoostClock ==
    /\ (Served("POST", Item) /\ resp.code = 200
          /\ "boost_clock" \notin DOMAIN req.json)
       => /\ parts[req.id].boost_clock = Null
          /\ \A k \in Required : parts[req.id][k] = req.json[k]
    /\ (Served("PATCH", Item) /\ resp.code = 200
          /\ "boost_clock" \notin DOMAIN req.json)
       => parts[req.id].boost_clock = pre[req.id].boost_clock

C8_Witness ==
    /\ Served("POST", Item)
    /\ resp.code = 200
    /\ "boost_clock" \notin DOMAIN req.json
    /\ pre[req.id].boost_clock # Null
    /\ parts[req.id].boost_clock = Null

\* C9: whatever request is served, every part that was stored is still
\* answered by get-by-id under the same id, unless the request was a
\* successful delete of that id; a successful delete removes the part it
\* names, so that get-by-id of it answers NotFound, 404, and leaves every
\* other part as it was.
C9_PartPersistsUntilDeleted ==
    resp # NoResp
    => /\ \A i \in DOMAIN pre :
             \/ Served("DELETE", Item) /\ req.id = i /\ resp.code = 200
             \/ /\ get_part_by_id(parts, i).resp.code = 200
                /\ get_part_by_id(parts, i).resp.data.id = i
       /\ (Served("DELETE", Item) /\ resp.code = 200)
          => /\ req.id \in DOMAIN pre
             /\ get_part_by_id(parts, req.id).resp = part_not_found
             /\ DOMAIN parts = DOMAIN pre \ {req.id}
             /\ \A j \in DOMAIN parts : parts[j] = pre[j]

C9_Witness ==
    /\ Served("DELETE", Item)
    /\ resp.code = 200
    /\ req.id \in DOMAIN pre
    /\ parts # EmptyTable

RECURSIVE TotalPrice(_, _)
\* the sum of the prices of the parts of ps with an id in S
TotalPrice(ps, S) ==
    IF S = {} THEN 0
    ELSE LET i == CHOOSE i \in S : TRUE
         IN ps[i].price + TotalPrice(ps, S \ {i})

\* the parts a list with query argument arg is to return
Selected(ps, arg) ==
    IF arg = Null THEN DOMAIN ps
    ELSE {i \in DOMAIN ps : Contains(Upper(ps[i].type), Upper(arg[1]))}

\* C10: a successful list answers 200 and leaves the table as it was; its
\* parts are the {id, name, type, price} of exactly the parts selected (all
\* without a filter, else those whose type contains the filter ignoring
\* case), total is their number, and average_price is 0 when there are none
\* and else the hundredth nearest to the sum of their prices over total.
C10_ListResult ==
    (Served("GET", Collection) /\ resp.code = 200)
    => LET sel == Selected(pre, req.type)
           out == resp.data
       IN /\ parts = pre
          /\ resp.status = 0
          /\ Len(out.parts) = Cardinality(sel)
          /\ {out.parts[n] : n \in 1..Len(out.parts)} =
                {[id |-> i, name |-> pre[i].name, type |-> pre[i].type,
                  price |-> pre[i].price] : i \in sel}
          /\ out.total = Len(out.parts)
          /\ IF out.total = 0
             THEN out.average_price = 0
             ELSE LET d == 100 * TotalPrice(pre, sel)
                           - out.average_price * out.total
                  IN 2 * d <= out.total /\ -2 * d <= out.total

C10_Witness ==
    /\ Served("GET", Collection)
    /\ resp.code = 200
    /\ req.type = <<GPU>>
    /\ resp.data.total = 1
    /\ Cardinality(DOMAIN pre) = 2
    /\ \E i \in DOMAIN pre : pre[i].price * 100 # resp.data.average_price

=============================================================================
